---- MODULE Spec2Model ----
(***************************************************************************)
(* A model of the geometry-lab engine (spaceEngine.ts) and of the caller   *)
(* protocol of App.tsx that drives it.                                     *)
(*                                                                         *)
(* Numbers.  The program computes in float64.  The model computes in       *)
(* fixed point: a real r is the integer round(r * Scale).  Coordinates,    *)
(* lengths, angles (radians) and the interpolation fraction t are in units *)
(* of 1/Scale; times (dt, elapsed, duration) are in milliseconds.          *)
(* Products and quotients round to nearest.  The inputs the actions draw   *)
(* are chosen so that the arithmetic the properties rest on is exact.      *)
(***************************************************************************)
EXTENDS Integers, Sequences, FiniteSets, TLC

Scale == 10^4

\* times (dt, elapsed, duration) are integers of milliseconds
Second == 10^3

(* ------------------------------------------------------------------ *)
(* Arithmetic                                                          *)
(*                                                                     *)
(* A value used more than once is handed to a helper operator as a     *)
(* parameter, so that it is written, and evaluated, once.              *)
(* ------------------------------------------------------------------ *)

Abs(a) == IF a < 0 THEN -a ELSE a

Min(a, b) == IF a <= b THEN a ELSE b

Max(a, b) == IF a >= b THEN a ELSE b

\* the sign of a product or quotient of a and b
Sgn2(a, b) == IF (a < 0) = (b < 0) THEN 1 ELSE -1

\* n / d rounded to nearest, d > 0
RDiv(n, d) == IF n >= 0 THEN (2 * n + d) \div (2 * d) ELSE -((d - 2 * n) \div (2 * d))

\* x * y of two fixed-point numbers >= 0; x is split into its integer and
\* fractional parts, so that large magnitudes do not overflow
MulAbs(x, y) == (x \div Scale) * y + ((x % Scale) * y + Scale \div 2) \div Scale

\* a * b of two fixed-point numbers
MulF(a, b) == Sgn2(a, b) * MulAbs(Abs(a), Abs(b))

\* x / y of two fixed-point numbers, x >= 0, y > 0, by long division
RECURSIVE DivAbs(_, _)
DivAbs(x, y) ==
  IF y > 100000 THEN DivAbs((x + 8) \div 16, (y + 8) \div 16)
  ELSE (x \div y) * Scale + (2 * (x % y) * Scale + y) \div (2 * y)

\* a / b of two fixed-point numbers, b # 0
DivF(a, b) == Sgn2(a, b) * DivAbs(Abs(a), Abs(b))

clamp(v, a, b) == Max(a, Min(b, v))

RECURSIVE SqrtIter(_, _)
SqrtIter(n, x) == IF (x + n \div x) \div 2 >= x THEN x ELSE SqrtIter(n, (x + n \div x) \div 2)

\* floor of the square root of the integer n
ISqrt(n) == IF n <= 0 THEN 0 ELSE SqrtIter(n, n)

\* r or r + 1, whichever is nearer to the square root of n, r its floor
SqrtRound(n, r) == IF n - r * r > r THEN r + 1 ELSE r

\* square root of the integer n, rounded to nearest
SqrtN(n) == SqrtRound(n, ISqrt(n))

\* Math.sqrt of a fixed-point number
SqrtF(a) == SqrtN(a * Scale)

Pi == 31416

HalfPi == 15708

TwoPi == 62832

\* w, in [0, TwoPi), as the angle in (-Pi, Pi]
WrapHalf(w) == IF w > Pi THEN w - TwoPi ELSE w

\* x reduced to (-Pi, Pi]
WrapPi(x) == WrapHalf(x % TwoPi)

\* x * (1 - x2 / 6 * (1 - x2 / 20 * (1 - x2 / 42 * (1 - x2 / 72)))), x2 = x * x
SinHorner(x, x2) ==
  MulF(x, Scale - RDiv(MulF(x2, Scale - RDiv(MulF(x2, Scale - RDiv(MulF(x2,
            Scale - RDiv(x2, 72)), 42)), 20)), 6))

\* sine of x, |x| <= HalfPi, by its Taylor polynomial
SinPoly(x) == SinHorner(x, MulF(x, x))

\* 1 - x2 / 2 * (1 - x2 / 12 * (1 - x2 / 30 * (1 - x2 / 56 * (1 - x2 / 90))))
CosHorner(x2) ==
  Scale - RDiv(MulF(x2, Scale - RDiv(MulF(x2, Scale - RDiv(MulF(x2, Scale - RDiv(MulF(x2,
            Scale - RDiv(x2, 90)), 56)), 30)), 12)), 2)

\* cosine of x, |x| <= HalfPi, by its Taylor polynomial
CosPoly(x) == CosHorner(MulF(x, x))

\* sin w = sin(Pi - w) = sin(-Pi - w): the angle in [-HalfPi, HalfPi] of the same sine
FoldSin(w) == IF w > HalfPi THEN Pi - w ELSE IF w < -HalfPi THEN -Pi - w ELSE w

\* Math.sin
Sin(x) == SinPoly(FoldSin(WrapPi(x)))

\* cos w = -cos(Pi - w) for w in (HalfPi, Pi]
CosSign(w) == IF w > HalfPi THEN -1 ELSE 1

CosArg(w) == IF w > HalfPi THEN Pi - w ELSE w

CosFolded(w) == CosSign(w) * CosPoly(CosArg(w))

\* Math.cos
Cos(x) == CosFolded(Abs(WrapPi(x)))

\* z * (1 - z2 * (1/3 - z2 * (1/5 - z2 * (1/7 - z2 * (1/9 - z2 / 11))))), z2 = z * z
AtanHorner(z, z2) ==
  MulF(z, Scale - MulF(z2, RDiv(Scale, 3) - MulF(z2, RDiv(Scale, 5) - MulF(z2,
          RDiv(Scale, 7) - MulF(z2, RDiv(Scale, 9) - RDiv(z2, 11))))))

\* arctangent of z, |z| <= 1/2, by its Taylor polynomial
AtanPoly(z) == AtanHorner(z, MulF(z, z))

\* arctangent of z, |z| <= 1: atan z = 2 atan(z / (1 + sqrt(1 + z^2)))
AtanUnit(z) == 2 * AtanPoly(DivF(z, Scale + SqrtF(Scale + MulF(z, z))))

\* Math.atan2 of a point off the origin: the arctangent of the smaller ratio,
\* counted from the axis the point is nearer to
AtanAxis(y, x) ==
  IF Abs(y) <= Abs(x) THEN (IF x > 0 THEN 0 ELSE IF y >= 0 THEN Pi ELSE -Pi)
  ELSE (IF y > 0 THEN HalfPi ELSE -HalfPi)

AtanRatio(y, x) == IF Abs(y) <= Abs(x) THEN DivF(y, x) ELSE -DivF(x, y)

AtanOctant(y, x) == AtanAxis(y, x) + AtanUnit(AtanRatio(y, x))

\* Math.atan2
Atan2(y, x) == IF x = 0 /\ y = 0 THEN 0 ELSE AtanOctant(y, x)

\* exp of x, |x| <= 1.2, by its Taylor polynomial (Horner form)
ExpPoly(x) ==
  Scale + MulF(x, Scale + RDiv(MulF(x, Scale + RDiv(MulF(x, Scale + RDiv(MulF(x,
    Scale + RDiv(MulF(x, Scale + RDiv(MulF(x, Scale + RDiv(MulF(x,
    Scale + RDiv(x, 8)), 7)), 6)), 5)), 4)), 3)), 2))

\* the exponentials of the two halves of x
ExpHalves(x) == [k \in 1..2 |-> ExpPoly(IF k = 1 THEN x \div 2 ELSE x - x \div 2)]

ExpProduct(h) == MulF(h[1], h[2])

\* Math.exp, for |x| <= 2.4: exp(x) = exp(x / 2) * exp(x - x / 2)
Exp(x) == ExpProduct(ExpHalves(x))

(* ------------------------------------------------------------------ *)
(* Vector helpers                                                      *)
(* ------------------------------------------------------------------ *)

V2(a, b) == [x |-> a, y |-> b]

V3(a, b, c) == [x |-> a, y |-> b, z |-> c]

\* Math.hypot; large magnitudes are scaled down before squaring
RECURSIVE hypot2(_)
hypot2(v) ==
  IF Abs(v.x) <= 30000 /\ Abs(v.y) <= 30000 THEN SqrtN(v.x * v.x + v.y * v.y)
  ELSE 8 * hypot2([x |-> RDiv(v.x, 8), y |-> RDiv(v.y, 8)])

add2(a, b) == V2(a.x + b.x, a.y + b.y)

sub2(a, b) == V2(a.x - b.x, a.y - b.y)

mul2(a, k) == V2(MulF(a.x, k), MulF(a.y, k))

dot2(a, b) == MulF(a.x, b.x) + MulF(a.y, b.y)

\* a / n, n the length of a
unit2(a, n) == IF n > 0 THEN V2(DivF(a.x, n), DivF(a.y, n)) ELSE V2(Scale, 0)

norm2(a) == unit2(a, hypot2(a))

dot3(a, b) == RDiv(a.x * b.x + a.y * b.y + a.z * b.z, Scale)

RECURSIVE hypot3(_)
hypot3(v) ==
  IF Abs(v.x) <= 26000 /\ Abs(v.y) <= 26000 /\ Abs(v.z) <= 26000
  THEN SqrtN(v.x * v.x + v.y * v.y + v.z * v.z)
  ELSE 8 * hypot3([x |-> RDiv(v.x, 8), y |-> RDiv(v.y, 8), z |-> RDiv(v.z, 8)])

mul3(v, k) == V3(MulF(v.x, k), MulF(v.y, k), MulF(v.z, k))

add3(a, b) == V3(a.x + b.x, a.y + b.y, a.z + b.z)

\* v / n, n the length of v
unit3(v, n) == IF n > 0 THEN V3(DivF(v.x, n), DivF(v.y, n), DivF(v.z, n)) ELSE V3(Scale, 0, 0)

norm3(v) == unit3(v, hypot3(v))

cross3(a, b) ==
  V3(RDiv(a.y * b.z - a.z * b.y, Scale),
     RDiv(a.z * b.x - a.x * b.z, Scale),
     RDiv(a.x * b.y - a.y * b.x, Scale))

(* ------------------------------------------------------------------ *)
(* Engine state                                                        *)
(* ------------------------------------------------------------------ *)

SpaceId == {"E", "H", "S"}

\* inProgress: null
NullTrace == [kind |-> "null"]

\* anim.rotate: absent
NoRotate == [on |-> FALSE]

createInitialState(space) ==
  [space |-> space,
   e_pos |-> V2(0, 0),
   e_theta |-> 0,
   h_pos |-> V2(0, 0),
   h_theta |-> 0,
   s_p |-> norm3(V3(0, 0, Scale)),
   s_t |-> norm3(V3(Scale, 0, 0)),
   shapes |-> <<>>,
   inProgress |-> NullTrace,
   log |-> <<>>,
   anim |-> [active |-> FALSE, path |-> <<>>, i |-> 0, t |-> 0, speed |-> 6000,
             addToTrace |-> FALSE, rotate |-> NoRotate]]

\* a reset that keeps the committed shapes
resetKeepsShapes(state, space) ==
  [createInitialState(space) EXCEPT !.shapes = state.shapes]

reset(state, space) == createInitialState(space)

clearShapes(state) == [state EXCEPT !.shapes = <<>>, !.inProgress = NullTrace]

sphereToWorld2(p) == V2(p.x, p.y)

frogWorldPos(state) ==
  IF state.space = "E" THEN state.e_pos
  ELSE IF state.space = "H" THEN state.h_pos
  ELSE sphereToWorld2(state.s_p)

(* ------------------------------------------------------------------ *)
(* Sphere helpers                                                      *)
(* ------------------------------------------------------------------ *)

\* p and t moved along their great circle, cp and sp the cosine and sine of the arc
sphereAdvanceBy(p, t, cp, sp) ==
  [p |-> norm3(add3(mul3(p, cp), mul3(t, sp))),
   t |-> norm3(add3(mul3(t, cp), mul3(p, -sp)))]

\* move along the great circle through p with tangent t
sphereAdvance(p, t, arc) == sphereAdvanceBy(p, t, Cos(arc), Sin(arc))

\* t turned about p, axt = p x t, cp and sp the cosine and sine of the angle
sphereTurnBy(p, t, axt, cp, sp) ==
  norm3(add3(add3(mul3(t, cp), mul3(axt, sp)), mul3(p, MulF(dot3(p, t), Scale - cp))))

\* rotate the tangent t about the axis p by ang
sphereTurn(p, t, ang) == sphereTurnBy(p, t, cross3(p, t), Cos(ang), Sin(ang))

greatCirclePath(p, t, arcLen, n) ==
  [k \in 1..(n + 1) |-> sphereToWorld2(sphereAdvance(p, t, RDiv(arcLen * (k - 1), n)).p)]

\* the first axis of the tangent plane at center, u0 = center x (0,0,1)
sphereCircleU(center, u0) ==
  norm3(IF hypot3(u0) < 1 THEN cross3(center, V3(0, Scale, 0)) ELSE u0)

\* the point of the circle at the angle a, in the frame (u, v) of the tangent plane
sphereCirclePoint(center, u, v, cr, sr, a) ==
  sphereToWorld2(norm3(add3(mul3(center, cr),
                            mul3(add3(mul3(u, Cos(a)), mul3(v, Sin(a))), sr))))

sphereCircleInFrame(center, u, v, cr, sr, n) ==
  [k \in 1..(n + 1) |-> sphereCirclePoint(center, u, v, cr, sr, RDiv(TwoPi * (k - 1), n))]

sphereCircleAround(center, u, radiusArc, n) ==
  sphereCircleInFrame(center, u, norm3(cross3(center, u)), Cos(radiusArc), Sin(radiusArc), n)

sphereCirclePoints(center, radiusArc, n) ==
  sphereCircleAround(center, sphereCircleU(center, cross3(center, V3(0, 0, Scale))),
                     radiusArc, n)

(* ------------------------------------------------------------------ *)
(* Hyperbolic (Poincare disk) helpers                                  *)
(* ------------------------------------------------------------------ *)

\* num / denom
over2(num, denom) == V2(DivF(num.x, denom), DivF(num.y, denom))

\* the Moebius sum of a and b, a2 = a.a, b2 = b.b, ab = a.b
mobiusSum(a, b, a2, b2, ab) ==
  over2(add2(mul2(a, Scale + 2 * ab + b2), mul2(b, Scale - a2)),
        Scale + 2 * ab + MulF(a2, b2))

mobiusAdd(a, b) == mobiusSum(a, b, dot2(a, a), dot2(b, b), dot2(a, b))

\* (e2x - 1) / (e2x + 1)
tanhOf(e2x) == DivF(e2x - Scale, e2x + Scale)

\* Math.exp beyond the range of Exp, for x <= 2.4: exp(x) = exp(x / 2) * exp(x - x / 2)
RECURSIVE ExpWide(_)
ExpWide(x) ==
  IF Abs(x) <= 24000 THEN Exp(x) ELSE MulF(ExpWide(x \div 2), ExpWide(x - x \div 2))

\* (e2x - 1) / (e2x + 1) written with 1 / e2x, which keeps a large e2x in range
tanhOfInverse(e) == DivF(Scale - e, Scale + e)

tanh(x) == IF x <= 12000 THEN tanhOf(ExpWide(2 * x)) ELSE tanhOfInverse(ExpWide(-2 * x))

\* a clamp that lets every point through
clampDiskNever(p, bound) == p

\* the clamp of a disk point: r2 < bound ? p : 0.999 * p / |p|
clampDisk(p, bound) == IF dot2(p, p) < bound THEN p ELSE mul2(norm2(p), 9990)

\* the direction at the origin of the step from p to q, moved by the
\* translation that takes p to the origin
directionFrom(p, q) ==
  norm2(sub2(mobiusAdd(V2(-p.x, -p.y), q), mobiusAdd(V2(-p.x, -p.y), p)))

\* eps is one unit of the model (1e-4)
hyperbolicDirectionAtOrigin(p, dir) ==
  directionFrom(p, clampDisk(add2(p, mul2(norm2(dir), 1)), 9999))

\* while (d > PI) d -= 2 PI; while (d < -PI) d += 2 PI, for |d| <= 2 PI
wrapDelta(d) == IF d > Pi THEN d - TwoPi ELSE IF d < -Pi THEN d + TwoPi ELSE d

\* the samples of the chord from a to b
geodesicChord(a, b, n) ==
  [k \in 1..(n + 1) |->
     clampDisk(add2(mul2(a, Scale - RDiv((k - 1) * Scale, n)),
                    mul2(b, RDiv((k - 1) * Scale, n))), 9990)]

\* the centre of the circle through a and b orthogonal to the unit circle
geodesicCentre(a, b, rhsA, rhsB, det) ==
  V2(DivF(MulF(rhsA, b.y) - MulF(a.y, rhsB), det),
     DivF(MulF(a.x, rhsB) - MulF(rhsA, b.x), det))

\* the point at the angle ang of the circle of centre c and radius r
geodesicArcPoint(c, r, ang) ==
  clampDisk(V2(c.x + MulF(r, Cos(ang)), c.y + MulF(r, Sin(ang))), 9990)

\* the samples of the arc that starts at the angle angA and sweeps d
geodesicArcSweep(c, r, angA, d, n) ==
  [k \in 1..(n + 1) |-> geodesicArcPoint(c, r, angA + RDiv(d * (k - 1), n))]

\* the samples of the arc from a to b of the circle of centre c
geodesicArc(a, b, c, n) ==
  geodesicArcSweep(c, hypot2(sub2(a, c)), Atan2(a.y - c.y, a.x - c.x),
                   wrapDelta(Atan2(b.y - c.y, b.x - c.x) - Atan2(a.y - c.y, a.x - c.x)), n)

\* cross = a x b; a chord when a, b and the origin are collinear
geodesicFrom(a, b, n, cross) ==
  IF cross = 0 THEN geodesicChord(a, b, n)
  ELSE geodesicArc(a, b, geodesicCentre(a, b, RDiv(dot2(a, a) + Scale, 2),
                                        RDiv(dot2(b, b) + Scale, 2), cross), n)

hyperbolicGeodesicPoints(a, b, n) ==
  geodesicFrom(a, b, n, RDiv(a.x * b.y - a.y * b.x, Scale))

(* ------------------------------------------------------------------ *)
(* Builders of paths for the actions                                   *)
(* ------------------------------------------------------------------ *)

\* sample counts of the builders (180, 260 and 220 intervals in the program)
PathN == 2

\* sample counts of the circle builders (260, 280 and 320 intervals in the program)
CircleN == 4

\* the unit vector of a heading angle
heading2(theta) == V2(Cos(theta), Sin(theta))

\* the Euclidean advance from the current position to B
advanceE(state, B) ==
  [path |-> <<state.e_pos, B>>, next |-> [state EXCEPT !.e_pos = B]]

\* the hyperbolic advance from the current position to p2
advanceH(state, p2) ==
  [path |-> hyperbolicGeodesicPoints(state.h_pos, p2, PathN),
   next |-> [state EXCEPT !.h_pos = p2]]

\* the spherical advance that ends in the frame adv
advanceS(state, dist, adv) ==
  [path |-> greatCirclePath(state.s_p, state.s_t, dist, PathN),
   next |-> [state EXCEPT !.s_p = adv.p, !.s_t = adv.t]]

buildAdvancePath(state, dist) ==
  IF state.space = "E"
  THEN advanceE(state, add2(state.e_pos, mul2(heading2(state.e_theta), dist)))
  ELSE IF state.space = "H"
  THEN advanceH(state,
         clampDisk(mobiusAdd(state.h_pos,
                             mul2(hyperbolicDirectionAtOrigin(state.h_pos,
                                                              heading2(state.h_theta)),
                                  tanh(RDiv(dist, 2)))),
                   9999))
  ELSE advanceS(state, dist, sphereAdvance(state.s_p, state.s_t, dist))

\* the rotate record buildTurnAnim stores
rotateRecord(from, to, duration) ==
  [on |-> TRUE, from |-> from, to |-> to, elapsed |-> 0, duration |-> duration]

buildTurnAnim(state, deg, duration) ==
  LET ang == RDiv(deg * Pi, 180)
      from == IF state.space = "E" THEN state.e_theta
              ELSE IF state.space = "H" THEN state.h_theta
              ELSE 0
  IN [state EXCEPT !.anim = [state.anim EXCEPT !.active = TRUE, !.path = <<>>, !.i = 0,
                                               !.t = 0, !.addToTrace = FALSE,
                                               !.rotate = rotateRecord(from, from + ang, duration)]]

\* a built path with the colour of its trace
withTraceColor(b, color) == [path |-> b.path, next |-> b.next, traceColor |-> color]

buildGeodesicTrace(state, length) ==
  withTraceColor(buildAdvancePath(state, length), "#16a34a")

\* the sample angle of index i among n intervals
circleAngle(i, n) == RDiv(TwoPi * i, n)

\* the point of the visual circle of centre C at angle a
circlePoint(C, radius, a) ==
  V2(C.x + MulF(radius, Cos(a)), C.y + MulF(radius, Sin(a)))

\* the Euclidean radius of the visual circle, from p.p and tanh(radius / 2)
diskRadius(p2, t) == DivF(MulF(t, Scale - p2), Scale - MulF(p2, MulF(t, t)))

\* the samples of the hyperbolic circle, kept inside the disk
diskCirclePoints(p, rho) ==
  [k \in 1..(CircleN + 1) |-> clampDisk(circlePoint(p, rho, circleAngle(k - 1, CircleN)), 9990)]

\* the Euclidean circle trace through pts
circleTraceE(state, pts) ==
  [path |-> pts, next |-> [state EXCEPT !.e_pos = pts[Len(pts)]], traceColor |-> "#2563eb"]

\* the hyperbolic circle trace through pts
circleTraceH(state, pts) ==
  [path |-> pts, next |-> [state EXCEPT !.h_pos = pts[Len(pts)]], traceColor |-> "#2563eb"]

buildCircleTrace(state, radius) ==
  IF state.space = "E"
  THEN circleTraceE(state, [k \in 1..(CircleN + 1) |->
                              circlePoint(state.e_pos, radius, circleAngle(k - 1, CircleN))])
  ELSE IF state.space = "H"
  THEN circleTraceH(state, diskCirclePoints(state.h_pos,
                             diskRadius(dot2(state.h_pos, state.h_pos), tanh(RDiv(radius, 2)))))
  ELSE [path |-> sphereCirclePoints(state.s_p, radius, CircleN), next |-> state,
        traceColor |-> "#2563eb"]

(* ------------------------------------------------------------------ *)
(* Animation step                                                      *)
(* ------------------------------------------------------------------ *)

\* minimum distance between two recorded points of a trace (0.002)
TraceThreshold == 20

\* the anim record of a finished job
idleAnim(speed) ==
  [active |-> FALSE, path |-> <<>>, i |-> 0, t |-> 0, speed |-> speed,
   addToTrace |-> FALSE, rotate |-> NoRotate]

\* the angle one step turns the spherical heading by
turnIncrement(r, dt) == RDiv(r.to * dt, r.duration)

\* the anim record after a turning step
rotateAnim(anim, elapsed, done) ==
  IF done THEN idleAnim(anim.speed) ELSE [anim EXCEPT !.rotate.elapsed = elapsed]

\* the heading at fraction u of the turn, written into the active space's field
rotateTo(state, dt, u, anim2) ==
  IF state.space = "E"
  THEN [state EXCEPT !.e_theta = state.anim.rotate.from
                                 + MulF(state.anim.rotate.to - state.anim.rotate.from, u),
                     !.anim = anim2]
  ELSE IF state.space = "H"
  THEN [state EXCEPT !.h_theta = state.anim.rotate.from
                                 + MulF(state.anim.rotate.to - state.anim.rotate.from, u),
                     !.anim = anim2]
  ELSE [state EXCEPT !.s_t = sphereTurn(state.s_p, state.s_t,
                                        turnIncrement(state.anim.rotate, dt)),
                     !.anim = anim2]

\* one turning step that reaches fraction u
rotateBy(state, dt, u) ==
  rotateTo(state, dt, u, rotateAnim(state.anim, state.anim.rotate.elapsed + dt, u >= Scale))

\* a turning branch that does not clamp elapsed / duration
stepRotateUnclamped(state, dt) ==
  rotateBy(state, dt, DivF(state.anim.rotate.elapsed + dt, state.anim.rotate.duration))

\* the turning branch of stepAnimation
stepRotate(state, dt) ==
  rotateBy(state, dt,
           clamp(DivF(state.anim.rotate.elapsed + dt, state.anim.rotate.duration), 0, Scale))

\* the loop of stepAnimation: walk along the polyline while budget remains;
\* i is the 0-based index of the current segment
RECURSIVE walkPath(_, _, _, _, _)

\* the walk stops inside the segment from A along seg, at parameter t2
stopAt(i, A, seg, t2) == [i |-> i, t |-> t2, pos |-> add2(A, mul2(seg, t2))]

\* an iteration that does not charge the rest of the segment to the budget
walkOnKeepsBudget(path, i, t, remaining, A, B, segLen, left) ==
  IF left >= remaining
  THEN stopAt(i, A, sub2(B, A), t + DivF(remaining, segLen))
  ELSE walkPath(path, i + 1, 0, remaining, B)

\* an iteration that carries the fraction t over into the next segment
walkOnKeepsFraction(path, i, t, remaining, A, B, segLen, left) ==
  IF left >= remaining
  THEN stopAt(i, A, sub2(B, A), t + DivF(remaining, segLen))
  ELSE walkPath(path, i + 1, t, remaining - left, B)

\* one iteration on the segment A B, of which left remains
walkOn(path, i, t, remaining, A, B, segLen, left) ==
  IF left >= remaining
  THEN stopAt(i, A, sub2(B, A), t + DivF(remaining, segLen))
  ELSE walkPath(path, i + 1, 0, remaining - left, B)

\* one iteration on the segment A B of length segLen
walkSegment(path, i, t, remaining, A, B, segLen) ==
  walkOn(path, i, t, remaining, A, B, segLen, MulF(segLen, Scale - t))

walkPath(path, i, t, remaining, currentPos) ==
  IF ~(remaining > 0 /\ i < Len(path) - 1)
  THEN [i |-> i, t |-> t, pos |-> currentPos]
  ELSE walkSegment(path, i, t, remaining, path[i + 1], path[i + 2],
                   hypot2(sub2(path[i + 2], path[i + 1])))

\* the point of the front hemisphere above currentPos
liftToSphere(currentPos, r2) ==
  norm3(V3(currentPos.x, currentPos.y, SqrtF(Max(0, Scale - r2))))

\* a write-back that treats the sphere like the plane and writes e_pos there
setFrogPosInPlane(state, currentPos) ==
  IF state.space = "H" THEN [state EXCEPT !.h_pos = currentPos]
  ELSE [state EXCEPT !.e_pos = currentPos]

\* the frog position written back into the active space's field
setFrogPos(state, currentPos) ==
  IF state.space = "E" THEN [state EXCEPT !.e_pos = currentPos]
  ELSE IF state.space = "H" THEN [state EXCEPT !.h_pos = currentPos]
  ELSE [state EXCEPT !.s_p = liftToSphere(currentPos,
                                          MulF(currentPos.x, currentPos.x)
                                          + MulF(currentPos.y, currentPos.y))]

\* a trace that also records a point at exactly the threshold distance
appendTraceAtThreshold(state, nextState, currentPos) ==
  IF state.anim.addToTrace /\ nextState.inProgress.kind = "polyline"
  THEN IF Len(nextState.inProgress.pts) = 0
          \/ hypot2(sub2(currentPos, nextState.inProgress.pts[Len(nextState.inProgress.pts)]))
               >= TraceThreshold
       THEN [nextState EXCEPT !.inProgress.pts = Append(nextState.inProgress.pts, currentPos)]
       ELSE nextState
  ELSE nextState

\* the trace after the visit of currentPos
appendTrace(state, nextState, currentPos) ==
  IF state.anim.addToTrace /\ nextState.inProgress.kind = "polyline"
  THEN IF Len(nextState.inProgress.pts) = 0
          \/ hypot2(sub2(currentPos, nextState.inProgress.pts[Len(nextState.inProgress.pts)]))
               > TraceThreshold
       THEN [nextState EXCEPT !.inProgress.pts = Append(nextState.inProgress.pts, currentPos)]
       ELSE nextState
  ELSE nextState

\* a step that writes the progress back but never ends the job
stepToNeverIdle(state, w, traced, done) ==
  [traced EXCEPT !.anim = [state.anim EXCEPT !.i = w.i, !.t = w.t]]

\* the state after the walk w, with the job finished when done
stepTo(state, w, traced, done) ==
  [traced EXCEPT !.anim = IF done THEN idleAnim(state.anim.speed)
                          ELSE [state.anim EXCEPT !.i = w.i, !.t = w.t]]

\* the position write and the trace append after the walk w
walked(state, w) == appendTrace(state, setFrogPos(state, w.pos), w.pos)

\* the walk of one step along the job's path
walkStep(state, dt) ==
  walkPath(state.anim.path, state.anim.i, state.anim.t,
           RDiv(state.anim.speed * dt, Second), frogWorldPos(state))

\* the path branch with a completion test that is off by one
finishWalkLate(state, w) ==
  stepTo(state, w, walked(state, w), w.i >= Len(state.anim.path))

\* the path branch after the walk w
finishWalk(state, w) ==
  stepTo(state, w, walked(state, w), w.i >= Len(state.anim.path) - 1)

\* a path branch whose completion test is off by one
stepPathLateDone(state, dt) ==
  IF Len(state.anim.path) < 2
  THEN [state EXCEPT !.anim.active = FALSE]
  ELSE finishWalkLate(state, walkStep(state, dt))

\* a path branch that leaves a path of fewer than 2 points scheduled
stepPathIgnoresShort(state, dt) ==
  IF Len(state.anim.path) < 2
  THEN state
  ELSE finishWalk(state, walkStep(state, dt))

\* the path branch of stepAnimation
stepPath(state, dt) ==
  IF Len(state.anim.path) < 2
  THEN [state EXCEPT !.anim.active = FALSE]
  ELSE finishWalk(state, walkStep(state, dt))

\* a step that tidies the anim record of an idle state
stepAnimationTidies(state, dt) ==
  IF ~state.anim.active THEN [state EXCEPT !.anim = idleAnim(state.anim.speed)]
  ELSE IF state.anim.rotate.on THEN stepRotate(state, dt)
  ELSE stepPath(state, dt)

stepAnimation(state, dt) ==
  IF ~state.anim.active THEN state
  ELSE IF state.anim.rotate.on THEN stepRotate(state, dt)
  ELSE stepPath(state, dt)

(* ------------------------------------------------------------------ *)
(* Tracing session and scheduling                                      *)
(* ------------------------------------------------------------------ *)

startTracing(state, color, width) ==
  [state EXCEPT !.inProgress = [kind |-> "polyline", pts |-> <<frogWorldPos(state)>>,
                                color |-> color, width |-> width]]

\* a promotion that also commits a trace of fewer than 2 points
finishTracingKeepsShort(state) ==
  IF state.inProgress = NullTrace THEN state
  ELSE [state EXCEPT !.shapes = Append(state.shapes, state.inProgress),
                     !.inProgress = NullTrace]

\* a promotion that replaces the store by the new shape
finishTracingReplaces(state) ==
  IF state.inProgress = NullTrace THEN state
  ELSE IF Len(state.inProgress.pts) < 2 THEN [state EXCEPT !.inProgress = NullTrace]
  ELSE [state EXCEPT !.shapes = <<state.inProgress>>, !.inProgress = NullTrace]

\* a promotion that drops only a trace without any point
finishTracingDropsEmptyOnly(state) ==
  IF state.inProgress = NullTrace THEN state
  ELSE IF Len(state.inProgress.pts) < 1 THEN [state EXCEPT !.inProgress = NullTrace]
  ELSE [state EXCEPT !.shapes = Append(state.shapes, state.inProgress),
                     !.inProgress = NullTrace]

finishTracing(state) ==
  IF state.inProgress = NullTrace THEN state
  ELSE IF Len(state.inProgress.pts) < 2 THEN [state EXCEPT !.inProgress = NullTrace]
  ELSE [state EXCEPT !.shapes = Append(state.shapes, state.inProgress),
                     !.inProgress = NullTrace]

\* a scheduling that spreads the old anim record, and so keeps its rotate record
animatePathKeepsRotate(state, path, speed, addToTrace) ==
  [state EXCEPT !.anim = [state.anim EXCEPT !.active = TRUE, !.path = path, !.i = 0, !.t = 0,
                                               !.speed = speed, !.addToTrace = addToTrace]]

animatePath(state, path, speed, addToTrace) ==
  [state EXCEPT !.anim = [active |-> TRUE, path |-> path, i |-> 0, t |-> 0, speed |-> speed,
                          addToTrace |-> addToTrace, rotate |-> NoRotate]]

\* a log that puts the new entry first
pushLogPrepends(state, entry) == [state EXCEPT !.log = <<entry>> \o state.log]

pushLog(state, entry) == [state EXCEPT !.log = Append(state.log, entry)]

(* ------------------------------------------------------------------ *)
(* The engine, driven by any sequence of its operations                *)
(* ------------------------------------------------------------------ *)

VARIABLES
  state,  \* the engine state (stateRef.current of the caller)
  prev,   \* history: the engine state before the last operation
  op,     \* history: the last operation and its arguments
  job,    \* history: the rotation job scheduled last, and what was stepped since
  nOps    \* history: the number of operations other than steps so far

engineVars == <<state, prev, op, job, nOps>>

\* The state of the caller (the App component) around the engine state.
VARIABLES
  space,        \* the space selected in the caller
  renderState,  \* the engine state handed to the renderer last
  toolMode,     \* "NONE" or "MEASURE"
  lineOpMode,   \* "NONE", "PARALLEL_0", "PARALLEL_1" or "PERPENDICULAR"
  selected,     \* the picked objects
  opPoint,      \* the point of the line operation shown
  lines,        \* the stored lines
  magicLine,    \* magicLineRef.current: the line being revealed
  measurePanelText,  \* the message shown in the measure panel
  timers,       \* the completion timers (setInterval) not cleared yet
  hist          \* history: what the commands issued so far ask for

appVars ==
  <<space, renderState, toolMode, lineOpMode, selected, opPoint, lines, magicLine,
    measurePanelText, timers, hist>>

NoPoint == [kind |-> "null"]

NullMagic == [kind |-> "null", active |-> FALSE]

NoHist == [turned |-> 0, sinceReset |-> FALSE, hasReset |-> FALSE, overlap |-> FALSE]

\* the caller right after mounting, around the engine state st
appMounted(st) ==
  /\ space = st.space
  /\ renderState = st
  /\ toolMode = "NONE"
  /\ lineOpMode = "NONE"
  /\ selected = <<>>
  /\ opPoint = NoPoint
  /\ lines = <<>>
  /\ magicLine = NullMagic
  /\ measurePanelText = "MODE MESURE : inactif"
  /\ timers = {}
  /\ hist = NoHist

\* at most MaxOps operations other than stepAnimation in one run
MaxOps == 3

\* the step sizes dt, in milliseconds
Dts == {200, 1500}

\* the speeds of path jobs (1.0 world unit per second)
Speeds == {10000}

\* the distance of an advance (1.0)
Dists == {10000}

\* the turns, in degrees
Degs == {90, -90}

\* the duration of a turn (0.35 s)
TurnDuration == 350

\* the polylines handed to animatePath
PathEmpty == <<>>

PathOnePoint == <<V2(0, 0)>>

PathBend == <<V2(0, 0), V2(3000, 0), V2(3000, 0), V2(3000, 4000)>>

PathTiny == <<V2(0, 0), V2(TraceThreshold, 0)>>

Paths == {PathEmpty, PathOnePoint, PathBend, PathTiny}

NoJob == [on |-> FALSE]

\* a session in progress: a committed shape, a log entry
sessionState(sp) ==
  pushLog(finishTracing(
            [startTracing(createInitialState(sp), "#16a34a", 3)
               EXCEPT !.inProgress.pts = <<V2(0, 0), V2(3000, 0)>>]),
          [t |-> 0, type |-> "TRACE_LINE", length |-> 3000])

EngineInit ==
  /\ state \in {createInitialState(sp) : sp \in SpaceId} \cup {sessionState("E")}
  /\ prev = state
  /\ op = [name |-> "init"]
  /\ job = NoJob
  /\ nOps = 0
  /\ appMounted(state)

\* one operation other than a step: the history it leaves
Did(operation, s2, j2) ==
  /\ nOps < MaxOps
  /\ state' = s2
  /\ prev' = state
  /\ op' = operation
  /\ job' = j2
  /\ nOps' = nOps + 1
  /\ UNCHANGED appVars

Reset ==
  \E sp \in SpaceId :
    Did([name |-> "reset", space |-> sp], reset(state, sp), NoJob)

ClearShapes == Did([name |-> "clearShapes"], clearShapes(state), job)

AnimatePath ==
  \E path \in Paths, speed \in Speeds, addToTrace \in BOOLEAN :
    Did([name |-> "animatePath", path |-> path, addToTrace |-> addToTrace],
        animatePath(state, path, speed, addToTrace), NoJob)

\* schedule the path of an advance
Advance ==
  \E dist \in Dists, speed \in Speeds :
    Did([name |-> "advance", dist |-> dist],
        animatePath(state, buildAdvancePath(state, dist).path, speed, FALSE), NoJob)

BuildTurnAnim ==
  \E deg \in Degs :
    LET s2 == buildTurnAnim(state, deg, TurnDuration)
    IN Did([name |-> "buildTurnAnim", deg |-> deg], s2,
           [on |-> TRUE, space |-> state.space, from |-> s2.anim.rotate.from,
            ang |-> s2.anim.rotate.to - s2.anim.rotate.from, duration |-> TurnDuration,
            stepped |-> 0, turned |-> 0])

StartTracing == Did([name |-> "startTracing"], startTracing(state, "#16a34a", 3), job)

FinishTracing == Did([name |-> "finishTracing"], finishTracing(state), job)

PushLog ==
  Did([name |-> "pushLog", entry |-> [t |-> nOps, type |-> "OBS"]],
      pushLog(state, [t |-> nOps, type |-> "OBS"]), job)

StepAnimation ==
  \E dt \in Dts :
    /\ state' = stepAnimation(state, dt)
    /\ prev' = state
    /\ op' = [name |-> "step", dt |-> dt]
    /\ job' = IF job.on /\ state.anim.active /\ state.anim.rotate.on
              THEN [job EXCEPT !.stepped = @ + dt,
                               !.turned = @ + turnIncrement(state.anim.rotate, dt)]
              ELSE job
    /\ UNCHANGED nOps
    /\ UNCHANGED appVars

Next ==
  \/ Reset
  \/ ClearShapes
  \/ AnimatePath
  \/ Advance
  \/ BuildTurnAnim
  \/ StartTracing
  \/ FinishTracing
  \/ PushLog
  \/ StepAnimation

vars ==
  <<state, prev, op, job, nOps, space, renderState, toolMode, lineOpMode, selected, opPoint,
    lines, magicLine, measurePanelText, timers, hist>>

Init == EngineInit

Spec == Init /\ [][Next]_vars

(* ------------------------------------------------------------------ *)
(* The caller: the App component around the engine                     *)
(*                                                                     *)
(* Modelled are the space selector, the advance, turn, trace segment   *)
(* and trace circle buttons, the line operation (its button, the       *)
(* canvas click and its timer), the frame loop and the completion      *)
(* timers.  The figure, line placement and hand measure modes are not  *)
(* entered by these handlers, so toolMode is "NONE" or "MEASURE" and   *)
(* the hand mode is always "NONE".  A handler that returns at once     *)
(* (its guard fails) is a step that changes nothing.                   *)
(* ------------------------------------------------------------------ *)

\* at most MaxCmds button presses, clicks and space changes in one run
MaxCmds == 4

\* the step size of a frame, in milliseconds (the largest the loop allows)
FrameDt == 33

\* the time a line takes to be revealed (0.45 s)
RevealTime == 450

\* the animation speed chosen on the slider (2.0, its maximum)
AnimSpeed == 20000

\* the numbers typed in the input fields: distance, angle, segment, radius
MoveDist == 1000

TurnDeg == 90

SegLen == 1000

CircleR == 500

\* the picking distance (0.035)
SEG_THR == 350

\* the half length of a Euclidean line (5)
LineExtent == 50000

\* the world points clicked on the canvas
ClickPts == {V2(1000, 0), V2(0, 2000), V2(10000, 0)}

LineOps == {"PARALLEL_0", "PERPENDICULAR"}

toSphereUnit(v) == RDiv(MulF(v, Pi), 180)

\* the distance from pt to the point of the segment at parameter t
distToParam(pt, a, ab, t) == hypot2(sub2(pt, add2(a, mul2(ab, t))))

\* the distance from pt to the segment from a along ab, of squared length ab2
distAlong(pt, a, ab, ab2) ==
  IF ab2 = 0 THEN hypot2(sub2(pt, a))
  ELSE distToParam(pt, a, ab, clamp(DivF(dot2(sub2(pt, a), ab), ab2), 0, Scale))

distPointToSegment(pt, a, b) == distAlong(pt, a, sub2(b, a), dot2(sub2(b, a), sub2(b, a)))

isValidWorldPoint(w) ==
  IF space = "H" THEN dot2(w, w) < Scale
  ELSE IF space = "S" THEN dot2(w, w) <= Scale
  ELSE TRUE

\* the segments of the polylines of seq within the picking distance of w, as
\* <<index of the polyline, index of the segment, distance>>
nearSegments(seq, w) ==
  UNION {{<<k, i, distPointToSegment(w, seq[k].pts[i], seq[k].pts[i + 1])>> :
            i \in 1..(Len(seq[k].pts) - 1)} :
         k \in {j \in 1..Len(seq) : seq[j].kind = "polyline"}}

\* the candidates closer than the picking distance
withinThreshold(cands) == {c \in cands : c[3] < SEG_THR}

\* the first of the nearest candidates, in the order the loops visit them
firstBest(cands) ==
  CHOOSE c \in cands :
    \A o \in cands :
      \/ c[3] < o[3]
      \/ (c[3] = o[3] /\ (c[1] < o[1] \/ (c[1] = o[1] /\ c[2] <= o[2])))

\* the stored lines, as polylines
linesAsPolylines == [k \in 1..Len(lines) |-> [kind |-> "polyline", pts |-> lines[k].pts]]

\* the picked segment of an engine shape
segmentObject(c) ==
  [kind |-> "segment", owner |-> "engine", id |-> <<c[1] - 1, c[2] - 1>>,
   a |-> renderState.shapes[c[1]].pts[c[2]],
   b |-> renderState.shapes[c[1]].pts[c[2] + 1]]

\* lines are picked before segments
pickAmong(nearLines, nearSegs) ==
  IF nearLines # {}
  THEN [kind |-> "line", id |-> lines[firstBest(nearLines)[1]].id]
  ELSE IF nearSegs # {}
  THEN segmentObject(firstBest(nearSegs))
  ELSE [kind |-> "null"]

pickObjectAt(w) ==
  pickAmong(withinThreshold(nearSegments(linesAsPolylines, w)),
            withinThreshold(nearSegments(renderState.shapes, w)))

\* the stored line the selection names, or the null record
selectedLine ==
  LET picks == {k \in 1..Len(selected) : selected[k].kind = "line"}
  IN IF picks = {} THEN [kind |-> "null"]
     ELSE LET l == selected[CHOOSE k \in picks : \A j \in picks : k <= j]
              found == {k \in 1..Len(lines) : lines[k].id = l.id}
          IN IF found = {} THEN [kind |-> "null"]
             ELSE lines[CHOOSE k \in found : \A j \in found : k <= j]

\* a length, or 1 when it is zero
orOne(L) == IF L = 0 THEN Scale ELSE L

\* the vector d divided by L
unitAlong(d, L) == V2(DivF(d.x, L), DivF(d.y, L))

\* the direction from p to q
directionOf(p, q) == unitAlong(sub2(q, p), orOne(hypot2(sub2(q, p))))

\* the two ends of the line through w along dir
lineAlong(w, dir) == <<sub2(w, mul2(dir, LineExtent)), add2(w, mul2(dir, LineExtent))>>

\* the direction of the line a line operation builds from the direction u
opDirection(u, mode) == IF mode = "PERPENDICULAR" THEN V2(-u.y, u.x) ELSE u

\* the Euclidean line through p and q
euclidLineThrough(p, q) == lineAlong(p, directionOf(p, q))

\* the polyline a Euclidean line operation builds through w
euclidLineOp(base, w, mode) ==
  lineAlong(w, opDirection(directionOf(base.baseP, base.baseQ), mode))

\* the samples of a great circle (560 or 720 in the caller)
LineN == 4

\* a / L
v3over(a, L) == V3(DivF(a.x, L), DivF(a.y, L), DivF(a.z, L))

\* a / (|a| || 1)
v3unit(a) == v3over(a, orOne(hypot3(a)))

liftToUpperHemisphere(p) == v3unit(V3(p.x, p.y, SqrtF(Max(0, Scale - dot2(p, p)))))

\* P without its part along n
planePart(n, P, Pn) == add3(P, mul3(mul3(n, Pn), -Scale))

\* the basis <<u, v>> of the plane of normal n, u along P
planeBasisFrom(n, u) == <<u, v3unit(cross3(n, u))>>

planeBasis(n, P) == planeBasisFrom(n, v3unit(planePart(n, P, dot3(P, n))))

\* the point u cos t + v sin t of the great circle, c = cos t and s = sin t
planePoint(u, v, c, s) ==
  v3unit(V3(MulF(u.x, c) + MulF(v.x, s), MulF(u.y, c) + MulF(v.y, s),
            MulF(u.z, c) + MulF(v.z, s)))

\* the steps + 1 points of the loop at t = 2 pi i / steps
greatCircleLoop(uv, steps) ==
  [k \in 1..(steps + 1) |->
     planePoint(uv[1], uv[2], Cos(circleAngle(k - 1, steps)), Sin(circleAngle(k - 1, steps)))]

\* the projections of the points X of loop with X.z >= -1e-10
upperProjected(kept) == [k \in 1..Len(kept) |-> sphereToWorld2(kept[k])]

greatCircleFromNormalAndPoint(n, through, steps) ==
  upperProjected(SelectSeq(greatCircleLoop(planeBasis(n, liftToUpperHemisphere(through)), steps),
                           LAMBDA X : X.z >= 0))

\* the great circle through `through` whose plane has normal nPerp, or alt
\* when nPerp vanishes, or nothing when both vanish
perpendicularFrom(nPerp, alt, through, steps) ==
  IF hypot3(nPerp) = 0
  THEN IF hypot3(alt) = 0 THEN <<>>
       ELSE greatCircleFromNormalAndPoint(v3unit(alt), through, steps)
  ELSE greatCircleFromNormalAndPoint(v3unit(nPerp), through, steps)

perpendicularAt(P, nBase, through, steps) ==
  perpendicularFrom(cross3(P, nBase), cross3(P, V3(Scale, 0, 0)), through, steps)

sphericalPerpendicularGreatCircleThroughPoint(baseP, baseQ, through, steps) ==
  perpendicularAt(liftToUpperHemisphere(through),
                  v3unit(cross3(liftToUpperHemisphere(baseP), liftToUpperHemisphere(baseQ))),
                  through, steps)

\* the whole loop through a and b, both hemispheres projected
closedLoop(a, n, steps) == upperProjected(greatCircleLoop(planeBasis(v3unit(n), a), steps))

closedThrough(p, q, a, n, steps) ==
  IF hypot3(n) = 0 THEN <<p, q>> ELSE closedLoop(a, n, steps)

\* the closed great circle through p and q (p = q gives the pair itself)
greatCircleProjectedClosed(p, q, steps) ==
  closedThrough(p, q, liftToUpperHemisphere(p),
                cross3(liftToUpperHemisphere(p), liftToUpperHemisphere(q)), steps)

\* a line drawn through (0,0) and (0.3,0) in E: the frog went to its middle
SeedLine ==
  [id |-> 1, pts |-> euclidLineThrough(V2(0, 0), V2(3000, 0)),
   baseP |-> V2(0, 0), baseQ |-> V2(3000, 0), space |-> "E"]

stateWithLine ==
  [createInitialState("E") EXCEPT !.e_pos = V2(1500, 0), !.anim.speed = AnimSpeed]

\* a line drawn through (0,0) and (0,0.3) in S: the frog went to its middle
SphereLine ==
  [id |-> 1, pts |-> greatCircleProjectedClosed(V2(0, 0), V2(0, 3000), LineN),
   baseP |-> V2(0, 0), baseQ |-> V2(0, 3000), space |-> "S"]

stateWithSphereLine ==
  setFrogPos([createInitialState("S") EXCEPT !.anim.speed = AnimSpeed], V2(0, 1500))

\* the application with the one line seed drawn, the frog in st
lineDrawn(st, seed) ==
  /\ state = st
  /\ space = st.space
  /\ renderState = st
  /\ toolMode = "NONE"
  /\ lineOpMode = "NONE"
  /\ selected = <<>>
  /\ opPoint = NoPoint
  /\ lines = <<seed>>
  /\ magicLine = [kind |-> "line", active |-> FALSE, pts |-> seed.pts, t |-> Scale,
                  finalLine |-> seed]
  /\ measurePanelText = "Droite tracee."
  /\ timers = {}
  /\ hist = NoHist

AppInit ==
  /\ \/ state = createInitialState("E") /\ appMounted(state)
     \/ lineDrawn(stateWithLine, SeedLine)
     \/ lineDrawn(stateWithSphereLine, SphereLine)
  /\ prev = state
  /\ op = [name |-> "init"]
  /\ job = NoJob
  /\ nOps = 0

\* the history a button press, a click or a space change leaves
Command(operation) ==
  /\ nOps < MaxCmds
  /\ prev' = state
  /\ op' = operation
  /\ nOps' = nOps + 1
  /\ UNCHANGED job

\* the history a frame or a timer tick leaves
Tick(operation) ==
  /\ prev' = state
  /\ op' = operation
  /\ UNCHANGED <<job, nOps>>

\* the space selector, and the effect that resets on a change of space
SetSpace ==
  \E sp \in SpaceId \ {space} :
    /\ Command([name |-> "setSpace", space |-> sp, scheduled |-> FALSE])
    /\ space' = sp
    /\ state' = reset(state, sp)
    /\ renderState' = state'
    /\ toolMode' = "NONE"
    /\ lineOpMode' = "NONE"
    /\ selected' = <<>>
    /\ opPoint' = NoPoint
    /\ lines' = <<>>
    /\ magicLine' = NullMagic
    /\ measurePanelText' = "MODE MESURE : inactif"
    /\ hist' = [hist EXCEPT !.turned = 0, !.sinceReset = TRUE, !.hasReset = TRUE]
    /\ UNCHANGED timers

\* a value typed in a field, in the unit of the space
inSpaceUnit(v) == IF space = "S" THEN toSphereUnit(v) ELSE v

\* the job of the built advance b starts, and its completion timer
StartAdvance(b) ==
  /\ state' = animatePath(state, b.path, AnimSpeed, FALSE)
  /\ timers' = timers \cup {[kind |-> "advance", n |-> nOps, next |-> b.next]}

\* the accumulate job of the built trace b starts, and its completion timer
StartTrace(b) ==
  /\ state' = animatePath(startTracing(state, b.traceColor, 3), b.path, AnimSpeed, TRUE)
  /\ timers' = timers \cup {[kind |-> "trace", n |-> nOps, next |-> b.next, path |-> b.path]}

\* the advance button with d typed in the distance field
DoAdvanceBy(d) ==
  /\ ~state.anim.active
  /\ Command([name |-> "doAdvance", scheduled |-> TRUE])
  /\ StartAdvance(buildAdvancePath(state, inSpaceUnit(d)))
  /\ hist' = [hist EXCEPT !.sinceReset = FALSE]
  /\ UNCHANGED <<space, renderState, toolMode, lineOpMode, selected, opPoint, lines, magicLine,
                 measurePanelText>>

DoAdvance == DoAdvanceBy(MoveDist)

DoTurn ==
  /\ ~state.anim.active
  /\ Command([name |-> "doTurn", scheduled |-> TRUE])
  /\ state' = buildTurnAnim(state, TurnDeg, TurnDuration)
  /\ hist' = [hist EXCEPT !.sinceReset = FALSE, !.turned = @ + RDiv(TurnDeg * Pi, 180)]
  /\ UNCHANGED <<space, renderState, toolMode, lineOpMode, selected, opPoint, lines, magicLine,
                 measurePanelText, timers>>

DoTraceSegment ==
  /\ ~state.anim.active
  /\ Command([name |-> "doTraceSegment", scheduled |-> TRUE])
  /\ StartTrace(buildGeodesicTrace(state, inSpaceUnit(SegLen)))
  /\ hist' = [hist EXCEPT !.sinceReset = FALSE]
  /\ UNCHANGED <<space, renderState, toolMode, lineOpMode, selected, opPoint, lines, magicLine,
                 measurePanelText>>

\* the circle button with r typed in the radius field
DoTraceCircleOf(r) ==
  /\ ~state.anim.active
  /\ Command([name |-> "doTraceCircle", scheduled |-> TRUE])
  /\ StartTrace(buildCircleTrace(state, inSpaceUnit(r)))
  /\ hist' = [hist EXCEPT !.sinceReset = FALSE]
  /\ UNCHANGED <<space, renderState, toolMode, lineOpMode, selected, opPoint, lines, magicLine,
                 measurePanelText>>

DoTraceCircle == DoTraceCircleOf(CircleR)

\* the frog put back at the centre of the space
recentred(st) ==
  IF space = "E" THEN [st EXCEPT !.e_pos = V2(0, 0)]
  ELSE IF space = "H" THEN [st EXCEPT !.h_pos = V2(0, 0)]
  ELSE [st EXCEPT !.s_p = V3(0, 0, Scale)]

RecenterFrog ==
  /\ ~state.anim.active
  /\ Command([name |-> "recenterFrog", scheduled |-> FALSE])
  /\ state' = recentred(state)
  /\ renderState' = state'
  /\ measurePanelText' = "Grenouille recentree (traces conserves)."
  /\ UNCHANGED <<space, toolMode, lineOpMode, selected, opPoint, lines, magicLine, timers, hist>>

\* the parallel and perpendicular buttons
BeginLineOp ==
  \E mode \in LineOps :
    /\ ~state.anim.active
    /\ Command([name |-> "beginLineOp", scheduled |-> FALSE])
    /\ toolMode' = "MEASURE"
    /\ opPoint' = NoPoint
    /\ lineOpMode' = mode
    /\ selected' = <<>>
    /\ measurePanelText' = "OPERATION SUR DROITE : ETAPE 1 : clique une droite"
    /\ UNCHANGED <<state, space, renderState, lines, magicLine, timers, hist>>

\* a click that changes nothing but the selection sel and the panel text
ClickSelects(sel, text) ==
  /\ selected' = sel
  /\ measurePanelText' = text
  /\ Command([name |-> "canvasClick", scheduled |-> FALSE])
  /\ UNCHANGED <<state, opPoint, timers, hist>>

\* the second click of a line operation: the frog goes to w, and a timer waits
ClickStartsLineOp(w, base) ==
  /\ opPoint' = w
  /\ state' = animatePath(state, <<frogWorldPos(state), w>>, AnimSpeed, FALSE)
  /\ timers' = timers \cup
       {[kind |-> "lineOp", n |-> nOps, space |-> space,
         lineOpMode |-> lineOpMode, base |-> base, w |-> w, before |-> state]}
  /\ hist' = [hist EXCEPT !.sinceReset = FALSE, !.overlap = @ \/ state.anim.active]
  /\ Command([name |-> "canvasClick", scheduled |-> TRUE])
  /\ UNCHANGED <<selected, measurePanelText>>

\* the selection with obj toggled
toggled(obj) ==
  IF \E k \in 1..Len(selected) : selected[k] = obj
  THEN SelectSeq(selected, LAMBDA x : x # obj)
  ELSE Append(selected, obj)

\* the last two picks of a selection
lastTwo(sel) == IF Len(sel) > 2 THEN SubSeq(sel, Len(sel) - 1, Len(sel)) ELSE sel

\* a click at w that picked obj while base is the selected line
ClickOn(w, obj, base) ==
  IF lineOpMode # "NONE"
  THEN IF obj.kind = "line"
       THEN ClickSelects(<<[kind |-> "line", id |-> obj.id]>>, "ETAPE 2 : clique un point")
       ELSE IF base = [kind |-> "null"]
       THEN ClickSelects(selected, "ETAPE 1 : selectionne d'abord une droite.")
       ELSE ClickStartsLineOp(w, base)
  ELSE IF toolMode = "MEASURE" /\ obj.kind # "null"
  THEN ClickSelects(lastTwo(toggled(obj)), measurePanelText)
  ELSE ClickSelects(selected, measurePanelText)

\* a click on the canvas at the world point w
CanvasClick ==
  \E w \in ClickPts :
    /\ isValidWorldPoint(w)
    /\ ClickOn(w, pickObjectAt(w), selectedLine)
    /\ UNCHANGED <<space, renderState, toolMode, lineOpMode, lines, magicLine>>

\* one turn of the frame loop
Frame ==
  /\ Tick([name |-> "frame", scheduled |-> FALSE])
  /\ state' = stepAnimation(state, FrameDt)
  /\ renderState' = state'
  /\ IF magicLine.active
     THEN LET t == clamp(magicLine.t + RDiv(FrameDt * Scale, RevealTime), 0, Scale)
          IN IF t >= Scale
             THEN /\ magicLine' = [magicLine EXCEPT !.t = t, !.active = FALSE]
                  /\ lines' = Append(lines, magicLine.finalLine)
             ELSE /\ magicLine' = [magicLine EXCEPT !.t = t]
                  /\ UNCHANGED lines
     ELSE UNCHANGED <<magicLine, lines>>
  /\ UNCHANGED <<space, toolMode, lineOpMode, selected, opPoint, measurePanelText, timers, hist>>

\* a tick of the timer of an advance that finds the engine idle
AdvanceTimer ==
  \E tm \in timers :
    /\ tm.kind = "advance"
    /\ ~state.anim.active
    /\ Tick([name |-> "advanceTimer", scheduled |-> FALSE])
    /\ state' = tm.next
    /\ renderState' = state'
    /\ timers' = timers \ {tm}
    /\ UNCHANGED <<space, toolMode, lineOpMode, selected, opPoint, lines, magicLine,
                   measurePanelText, hist>>

\* a tick of the timer of a trace that finds the engine idle
TraceTimer ==
  \E tm \in timers :
    /\ tm.kind = "trace"
    /\ ~state.anim.active
    /\ Tick([name |-> "traceTimer", scheduled |-> FALSE, path |-> tm.path])
    /\ state' = finishTracing([tm.next EXCEPT !.inProgress = state.inProgress])
    /\ renderState' = state'
    /\ timers' = timers \ {tm}
    /\ UNCHANGED <<space, toolMode, lineOpMode, selected, opPoint, lines, magicLine,
                   measurePanelText, hist>>

\* the line being revealed, and the stored line it becomes
revealOf(pts, id, sp) ==
  [kind |-> "line", active |-> TRUE, pts |-> pts, t |-> 0,
   finalLine |-> [id |-> id, pts |-> pts, baseP |-> pts[1], baseQ |-> pts[Len(pts)],
                  space |-> sp]]

\* the message of a line operation that could not be done
Impossible == "OPERATION IMPOSSIBLE A L'ENDROIT INDIQUE"

\* a parallel on the sphere, drawn as the perpendicular of the base line
lineOpPointsApproximated(sp, mode, base, w) ==
  IF sp = "E" THEN euclidLineOp(base, w, mode)
  ELSE sphericalPerpendicularGreatCircleThroughPoint(base.baseP, base.baseQ, w, LineN)

\* the polyline a line operation builds through w in E and in S; the sphere has
\* no parallel, which leaves the polyline empty
lineOpPoints(sp, mode, base, w) ==
  IF sp = "E" THEN euclidLineOp(base, w, mode)
  ELSE IF mode = "PERPENDICULAR"
  THEN sphericalPerpendicularGreatCircleThroughPoint(base.baseP, base.baseQ, w, LineN)
  ELSE <<>>

\* the end of the line operation of timer tm that built pts
LineOpEnds(pts, tm) ==
  /\ IF Len(pts) < 2
     THEN /\ measurePanelText' = Impossible
          /\ UNCHANGED magicLine
     ELSE /\ magicLine' = revealOf(pts, Len(lines) + tm.n + 2, tm.space)
          /\ measurePanelText' = "OPERATION TERMINEE : droite creee."
  /\ lineOpMode' = "NONE"
  /\ timers' = timers \ {tm}
  /\ UNCHANGED <<state, space, renderState, toolMode, selected, opPoint, lines, hist>>

\* a tick of the timer of a line operation that finds the engine idle; lines
\* are stored here in E and in S only
LineOpTimer ==
  \E tm \in timers :
    /\ tm.kind = "lineOp"
    /\ ~state.anim.active
    /\ Tick([name |-> "lineOpTimer", scheduled |-> FALSE, n |-> tm.n, space |-> tm.space,
             lineOpMode |-> tm.lineOpMode, w |-> tm.w, before |-> tm.before])
    /\ LineOpEnds(lineOpPoints(tm.space, tm.lineOpMode, tm.base, tm.w), tm)

AppNext ==
  \/ SetSpace
  \/ DoAdvance
  \/ DoTurn
  \/ DoTraceSegment
  \/ DoTraceCircle
  \/ BeginLineOp
  \/ CanvasClick
  \/ Frame
  \/ AdvanceTimer
  \/ TraceTimer
  \/ LineOpTimer

SpecApp == AppInit /\ [][AppNext]_vars

(* ------------------------------------------------------------------ *)
(* The application in the hyperbolic space, with short and long moves  *)
(* ------------------------------------------------------------------ *)

\* the distances and radii typed: 0.1 and 12
HypDists == {1000, 120000}

\* the application after the space selector was set to H
HypInit ==
  /\ state = createInitialState("H")
  /\ appMounted(state)
  /\ prev = state
  /\ op = [name |-> "init"]
  /\ job = NoJob
  /\ nOps = 0

\* the squared norm up to which the arithmetic of the model resolves the
\* Moebius sum, whose denominator is of the order of (1 - |p|^2)^2
HypSafe == 9000

HypResolved == dot2(state.h_pos, state.h_pos) <= HypSafe

HypAdvance == \E d \in HypDists : HypResolved /\ DoAdvanceBy(d)

HypTraceSegment == HypResolved /\ DoTraceSegment

HypTraceCircle == \E r \in HypDists : DoTraceCircleOf(r)

HypNext ==
  \/ HypAdvance
  \/ DoTurn
  \/ HypTraceSegment
  \/ HypTraceCircle
  \/ RecenterFrog
  \/ Frame
  \/ AdvanceTimer
  \/ TraceTimer

SpecHyp == HypInit /\ [][HypNext]_vars

(* ------------------------------------------------------------------ *)
(* Measures and geodesics between two points                           *)
(* ------------------------------------------------------------------ *)

\* Math.acos, for -1 <= c <= 1
Acos(c) == Atan2(SqrtF(Scale - MulF(c, c)), c)

\* Math.sqrt beyond the range of SqrtF
RECURSIVE SqrtWide(_)
SqrtWide(a) == IF a <= 200000 THEN SqrtF(a) ELSE 2 * SqrtWide(RDiv(a, 4))

\* 2 atanh(u) = 2 (u + u^3/3 + u^5/5 + u^7/7), u2 = u^2 <= 1/9
LnSeries(u, u2) ==
  2 * MulF(u, Scale + MulF(u2, RDiv(Scale, 3) + MulF(u2, RDiv(Scale, 5) + RDiv(u2, 7))))

\* ln(m) for 1 <= m <= 2, with u = (m - 1) / (m + 1)
LnOf(u) == LnSeries(u, MulF(u, u))

\* Math.log for x >= 1: ln(x) = ln(2) + ln(x / 2)
RECURSIVE Ln(_)
Ln(x) == IF x > 2 * Scale THEN 6931 + Ln(RDiv(x, 2)) ELSE LnOf(DivF(x - Scale, x + Scale))

\* Math.acosh, for x >= 1
Acosh(x) == Ln(x + SqrtWide(MulF(x, x) - Scale))

\* the value of a distance that is not finite
Infinity == 2147483647

euclidLen(a, b) == hypot2(sub2(b, a))

liftSphereUpper(p) == V3(p.x, p.y, SqrtF(Max(0, Scale - (MulF(p.x, p.x) + MulF(p.y, p.y)))))

\* a hyperbolic distance whose denominator takes the first point twice
distanceFromFirst(a2, b2, d2) ==
  IF MulF(Scale - a2, Scale - a2) <= 0 THEN Infinity
  ELSE Acosh(Max(Scale, Scale + DivF(2 * d2, MulF(Scale - a2, Scale - a2))))

\* the hyperbolic distance from a2 = |A|^2, b2 = |B|^2 and d2 = |A - B|^2
distanceInDisk(a2, b2, d2) ==
  IF MulF(Scale - a2, Scale - b2) <= 0 THEN Infinity
  ELSE Acosh(Max(Scale, Scale + DivF(2 * d2, MulF(Scale - a2, Scale - b2))))

\* the angle between the lifted points a and b, of lengths da and db
distanceOnSphere(a, b, da, db) == Acos(clamp(DivF(dot3(a, b), MulF(da, db)), -Scale, Scale))

\* a distance that is not the same in both directions in H
distanceExactOneSided(sp, A, B) ==
  IF sp = "E" THEN euclidLen(A, B)
  ELSE IF sp = "H"
  THEN distanceFromFirst(MulF(A.x, A.x) + MulF(A.y, A.y), MulF(B.x, B.x) + MulF(B.y, B.y),
                         dot2(sub2(A, B), sub2(A, B)))
  ELSE distanceOnSphere(liftSphereUpper(A), liftSphereUpper(B),
                        orOne(hypot3(liftSphereUpper(A))), orOne(hypot3(liftSphereUpper(B))))

distanceExact(sp, A, B) ==
  IF sp = "E" THEN euclidLen(A, B)
  ELSE IF sp = "H"
  THEN distanceInDisk(MulF(A.x, A.x) + MulF(A.y, A.y), MulF(B.x, B.x) + MulF(B.y, B.y),
                      dot2(sub2(A, B), sub2(A, B)))
  ELSE distanceOnSphere(liftSphereUpper(A), liftSphereUpper(B),
                        orOne(hypot3(liftSphereUpper(A))), orOne(hypot3(liftSphereUpper(B))))

\* while (a <= -PI) a += 2 PI; while (a > PI) a -= 2 PI, for |a| <= 2 PI
normalizeAngle(a) == IF a <= -Pi THEN a + TwoPi ELSE IF a > Pi THEN a - TwoPi ELSE a

\* the angle x lies on the arc of length L from its start
onArc(x, L) == IF L >= 0 THEN x >= 0 /\ x <= L ELSE x <= 0 /\ x >= L

contains(a, from, delta) == onArc(normalizeAngle(a - from), normalizeAngle(delta))

\* the sweep from aStart that contains mustContain: d, or the other way round
sweepOf(aStart, mustContain, d) ==
  IF contains(mustContain, aStart, d) THEN d
  ELSE d - (IF d < 0 THEN -1 ELSE 1) * TwoPi

arcSamples(c, r, aStart, useDelta, steps) ==
  [k \in 1..(steps + 1) |->
     V2(c.x + MulF(r, Cos(aStart + RDiv(useDelta * (k - 1), steps))),
        c.y + MulF(r, Sin(aStart + RDiv(useDelta * (k - 1), steps))))]

sampleArcThroughAngles(c, r, aStart, aEnd, mustContain, steps) ==
  arcSamples(c, r, aStart, sweepOf(aStart, mustContain, normalizeAngle(aEnd - aStart)), steps)

\* pts with only its first point replaced, by p
pinnedAtStart(pts, p, q) == [k \in 1..Len(pts) |-> IF k = 1 THEN p ELSE pts[k]]

\* pts with its first point replaced by p and its last by q
pinned(pts, p, q) == [k \in 1..Len(pts) |-> IF k = 1 THEN p ELSE IF k = Len(pts) THEN q ELSE pts[k]]

\* the arc from p to q of the circle of centre c, r2 = |c|^2 - 1; no circle
\* (r2 <= 1e-10) gives the pair
arcOrPair(p, q, c, r2, steps) ==
  IF r2 <= 0 THEN <<p, q>>
  ELSE pinned(sampleArcThroughAngles(c, SqrtWide(r2), Atan2(p.y - c.y, p.x - c.x),
                                     Atan2(q.y - c.y, q.x - c.x),
                                     Atan2(p.y - c.y, p.x - c.x), steps), p, q)

arcAround(p, q, c, steps) == arcOrPair(p, q, c, dot2(c, c) - Scale, steps)

\* cross = p x q in units of 1e-8: below 1e-7 the three points are collinear
segmentFrom(p, q, cross, steps) ==
  IF Abs(cross) < 10 THEN <<p, q>>
  ELSE arcAround(p, q, geodesicCentre(p, q, RDiv(dot2(p, p) + Scale, 2),
                                      RDiv(dot2(q, q) + Scale, 2), RDiv(cross, Scale)), steps)

geodesicPoincareSegment(p, q, steps) == segmentFrom(p, q, p.x * q.y - p.y * q.x, steps)

\* the point at t of the great arc from a to b of angle omega, s = sin(omega)
slerpPoint(a, b, s1, s2) == v3unit(add3(mul3(a, s1), mul3(b, s2)))

slerpSamples(a, b, omega, sinOm, steps) ==
  [k \in 1..(steps + 1) |->
     slerpPoint(a, b, DivF(Sin(omega - RDiv(omega * (k - 1), steps)), sinOm),
                DivF(Sin(RDiv(omega * (k - 1), steps)), sinOm))]

\* at least two points, or the pair
twoOrPair(pts, p, q) == IF Len(pts) >= 2 THEN pinned(pts, p, q) ELSE <<p, q>>

sphereSegment(p, q, a, b, omega, steps) ==
  IF omega = 0 THEN <<p, q>>
  ELSE twoOrPair(upperProjected(SelectSeq(slerpSamples(a, b, omega, Sin(omega), steps),
                                          LAMBDA X : X.z >= 0)), p, q)

sphereSegmentOf(p, q, a, b, steps) ==
  sphereSegment(p, q, a, b, Acos(clamp(dot3(a, b), -Scale, Scale)), steps)

geodesicSphereProjectedSegment(p, q, steps) ==
  sphereSegmentOf(p, q, liftToUpperHemisphere(p), liftToUpperHemisphere(q), steps)

\* a geodesic that samples the chord of collinear points in H
geodesicBetweenSampled(sp, p, q, steps) ==
  IF sp = "E" THEN <<p, q>>
  ELSE IF sp = "H" THEN hyperbolicGeodesicPoints(p, q, steps)
  ELSE geodesicSphereProjectedSegment(p, q, steps)

geodesicBetween(sp, p, q, steps) ==
  IF sp = "E" THEN <<p, q>>
  ELSE IF sp = "H" THEN geodesicPoincareSegment(p, q, steps)
  ELSE geodesicSphereProjectedSegment(p, q, steps)

\* the coordinates of the points measured and joined
GeoCoords == {-5000, 0, 2000, 3000, 5000}

GeoPts == {V2(x, y) : x, y \in GeoCoords}

\* the samples of a geodesic (260 in the caller)
GeoN == 4

\* the validity of a point in the space sp
validIn(sp, w) ==
  IF sp = "H" THEN dot2(w, w) < Scale
  ELSE IF sp = "S" THEN dot2(w, w) <= Scale
  ELSE TRUE

\* the application at rest, and the space and the two valid points of a call
GeoInit ==
  /\ state = createInitialState("E")
  /\ appMounted(state)
  /\ prev = state
  /\ \E sp \in SpaceId, A \in GeoPts, B \in GeoPts :
       /\ validIn(sp, A) /\ validIn(sp, B)
       /\ op = [name |-> "args", space |-> sp, A |-> A, B |-> B]
  /\ job = NoJob
  /\ nOps = 0

\* a call that leaves the application as it is
Called(call) ==
  /\ op.name = "args"
  /\ op' = call
  /\ UNCHANGED <<state, prev, job, nOps, appVars>>

\* the distance of the two points, asked in both orders
DistanceExact ==
  Called([name |-> "distanceExact", space |-> op.space, A |-> op.A, B |-> op.B,
          d |-> distanceExact(op.space, op.A, op.B),
          back |-> distanceExact(op.space, op.B, op.A)])

\* the geodesic between the two points
GeodesicBetween ==
  Called([name |-> "geodesicBetween", space |-> op.space, p |-> op.A, q |-> op.B,
          pts |-> geodesicBetween(op.space, op.A, op.B, GeoN)])

GeoNext == DistanceExact \/ GeodesicBetween

SpecGeo == GeoInit /\ [][GeoNext]_vars

(* ------------------------------------------------------------------ *)
(* Properties of the engine                                            *)
(* ------------------------------------------------------------------ *)

\* the last operation was a step of a path job with at least 2 points
SteppedPathJob ==
  /\ op.name = "step"
  /\ prev.anim.active
  /\ ~prev.anim.rotate.on
  /\ Len(prev.anim.path) >= 2

\* the length of the path of anim that lies ahead of (i, t)
RECURSIVE lengthFrom(_, _)
lengthFrom(path, k) ==
  IF k >= Len(path) THEN 0
  ELSE hypot2(sub2(path[k + 1], path[k])) + lengthFrom(path, k + 1)

remainingLength(anim) ==
  IF anim.i >= Len(anim.path) - 1 THEN 0
  ELSE MulF(hypot2(sub2(anim.path[anim.i + 2], anim.path[anim.i + 1])), Scale - anim.t)
       + lengthFrom(anim.path, anim.i + 2)

headingOf(st) == IF st.space = "E" THEN st.e_theta ELSE st.h_theta

\* A position written in S is renormalised on the sphere, which returns it up to
\* the rounding of the arithmetic; positions in E and H are stored as given.
Ulp == 1
Tol(sp) == IF sp = "S" THEN Ulp ELSE 0
Near(p, q, tol) == Abs(p.x - q.x) <= tol /\ Abs(p.y - q.y) <= tol

\* C1: reset returns, from every prior state, exactly the initial state of the
\* requested space: positions and headings initial, shapes, trace and log empty,
\* no job, no path, no rotate record.
C1_ResetGivesInitialState ==
  op.name = "reset" =>
    state = [space |-> op.space,
             e_pos |-> V2(0, 0), e_theta |-> 0,
             h_pos |-> V2(0, 0), h_theta |-> 0,
             s_p |-> V3(0, 0, Scale), s_t |-> V3(Scale, 0, 0),
             shapes |-> <<>>, inProgress |-> NullTrace, log |-> <<>>,
             anim |-> [active |-> FALSE, path |-> <<>>, i |-> 0, t |-> 0, speed |-> 6000,
                       addToTrace |-> FALSE, rotate |-> NoRotate]]

\* a reset to another space of a state with an active job, a trace in progress,
\* a committed shape and a log entry
C1_Witness ==
  /\ op.name = "reset"
  /\ op.space # prev.space
  /\ prev.anim.active
  /\ prev.inProgress # NullTrace
  /\ Len(prev.inProgress.pts) >= 1
  /\ Len(prev.shapes) >= 1
  /\ Len(prev.log) >= 1
  /\ state.shapes = <<>>

\* C2: one step of a path job of at least 2 points whose budget speed * dt exceeds
\* the remaining path length ends the job with the frog on the last point of the
\* path; a Euclidean advance of 1 from (0,0) with heading 0 builds [(0,0), (1,0)].
C2_StepExhaustsPath ==
  /\ (SteppedPathJob
      /\ RDiv(prev.anim.speed * op.dt, Second) > remainingLength(prev.anim))
     => /\ ~state.anim.active
        /\ Near(frogWorldPos(state), prev.anim.path[Len(prev.anim.path)], Tol(prev.space))
  /\ (op.name = "advance" /\ op.dist = Scale /\ prev.space = "E"
      /\ prev.e_pos = V2(0, 0) /\ prev.e_theta = 0)
     => state.anim.path = <<V2(0, 0), V2(Scale, 0)>>

\* the advance of 1 from the Euclidean origin, exhausted by one step
C2_Witness ==
  /\ op.name = "step"
  /\ prev.space = "E"
  /\ prev.anim.active
  /\ prev.anim.path = <<V2(0, 0), V2(Scale, 0)>>
  /\ prev.anim.i = 0
  /\ prev.anim.t = 0
  /\ RDiv(prev.anim.speed * op.dt, Second) > Scale
  /\ ~state.anim.active
  /\ state.e_pos = V2(Scale, 0)

\* C3: in E and H the heading of a rotation job is from + (to - from) *
\* clamp(stepped time / duration, 0, 1) after every step, it never passes the
\* target, and once the stepped time reaches the duration it is initial + angle
\* and the job is inactive.
C3_HeadingInterpolates ==
  (job.on /\ job.space \in {"E", "H"}) =>
    LET u == clamp(DivF(job.stepped, job.duration), 0, Scale)
        turned == headingOf(state) - job.from
    IN /\ state.space = job.space
       /\ turned = MulF(job.ang, u)
       /\ Abs(turned) <= Abs(job.ang)
       /\ (job.ang >= 0 => turned >= 0)
       /\ (job.ang <= 0 => turned <= 0)
       /\ (job.stepped >= job.duration
             => headingOf(state) = job.from + job.ang /\ ~state.anim.active)
       /\ (job.stepped < job.duration => state.anim.active /\ state.anim.rotate.on)

\* a rotation in H that completed after an intermediate step
C3_Witness ==
  /\ job.on
  /\ job.space = "H"
  /\ job.stepped > job.duration
  /\ job.stepped < 2 * job.duration
  /\ op.name = "step"
  /\ prev.anim.rotate.on
  /\ prev.h_theta # job.from
  /\ prev.h_theta # job.from + job.ang
  /\ state.h_theta = job.from + job.ang
  /\ ~state.anim.active

\* C4: in S the sum of the rotation increments applied to the heading never
\* exceeds the total angle A of the job and equals A when the job completes.
C4_SphereTurnNoOvershoot ==
  (job.on /\ job.space = "S") =>
    /\ Abs(job.turned) <= Abs(job.ang)
    /\ (job.stepped >= job.duration => job.turned = job.ang)

\* C5: the anim record describes at most one job: a rotate record is present only
\* while the job is active and then the path is empty, so that Idle, FollowingPath
\* and Rotating exclude each other.
C5_OneJob ==
  LET Idle == ~state.anim.active
      FollowingPath == state.anim.active /\ Len(state.anim.path) > 0
      Rotating == state.anim.rotate.on
  IN /\ (Rotating => state.anim.active /\ state.anim.path = <<>>)
     /\ ~(Idle /\ Rotating)
     /\ ~(FollowingPath /\ Rotating)
     /\ ~(Idle /\ FollowingPath)

\* a path job scheduled while a rotation was running
C5_Witness ==
  /\ op.name = "animatePath"
  /\ prev.anim.active
  /\ prev.anim.rotate.on
  /\ prev.anim.rotate.elapsed > 0
  /\ state.anim.active
  /\ Len(state.anim.path) >= 2
  /\ ~state.anim.rotate.on

\* C9: a step of a path job with accumulate set and a trace in progress appends
\* the frog's new position at the end of the trace when it is farther than the
\* threshold from the trace's last point, and leaves the trace alone otherwise;
\* a step with the flag unset leaves the trace unchanged.
C9_TraceAppend ==
  /\ (SteppedPathJob /\ prev.anim.addToTrace /\ prev.inProgress # NullTrace)
     => LET pts == prev.inProgress.pts
            new == state.inProgress.pts
            pos == frogWorldPos(state)
            tol == Tol(prev.space)
        IN /\ state.inProgress = [prev.inProgress EXCEPT !.pts = new]
           /\ Len(pts) >= 1
           /\ Len(new) \in {Len(pts), Len(pts) + 1}
           /\ SubSeq(new, 1, Len(pts)) = pts
           /\ Len(new) = Len(pts) + 1
                => /\ Near(new[Len(new)], pos, tol)
                   /\ hypot2(sub2(new[Len(new)], pts[Len(pts)])) > TraceThreshold
           /\ Len(new) = Len(pts)
                => hypot2(sub2(pos, pts[Len(pts)])) <= TraceThreshold + tol
  /\ (op.name = "step" /\ ~prev.anim.addToTrace)
     => state.inProgress = prev.inProgress

\* a step that extended a trace of two points by a third
C9_Witness ==
  /\ SteppedPathJob
  /\ prev.anim.addToTrace
  /\ prev.inProgress # NullTrace
  /\ Len(prev.inProgress.pts) = 2
  /\ state.inProgress # NullTrace
  /\ Len(state.inProgress.pts) = 3
  /\ state.anim.active

\* seq starts with the sequence pre
IsPrefix(pre, seq) == Len(pre) <= Len(seq) /\ SubSeq(seq, 1, Len(pre)) = pre

\* C11: finishTracing appends a trace of at least 2 points as the last shape,
\* points, colour and width unchanged; it discards a shorter trace; it returns
\* the state unchanged when there is no trace; afterwards inProgress is null and
\* every other field is as before.
C11_FinishTracingPromotes ==
  op.name = "finishTracing" =>
    /\ state.inProgress = NullTrace
    /\ prev.inProgress = NullTrace => state = prev
    /\ (prev.inProgress # NullTrace /\ Len(prev.inProgress.pts) < 2)
         => state = [prev EXCEPT !.inProgress = NullTrace]
    /\ (prev.inProgress # NullTrace /\ Len(prev.inProgress.pts) >= 2)
         => /\ state = [prev EXCEPT !.shapes = state.shapes, !.inProgress = NullTrace]
            /\ Len(state.shapes) = Len(prev.shapes) + 1
            /\ SubSeq(state.shapes, 1, Len(prev.shapes)) = prev.shapes
            /\ state.shapes[Len(state.shapes)] = prev.inProgress

\* a trace of two points promoted behind a shape already committed
C11_Witness ==
  /\ op.name = "finishTracing"
  /\ prev.inProgress # NullTrace
  /\ Len(prev.inProgress.pts) = 2
  /\ Len(prev.shapes) = 1
  /\ Len(state.shapes) = 2
  /\ state.shapes[2].pts = prev.inProgress.pts

\* C12: the shape store is append-only and its elements immutable: a step, a
\* scheduling, a turn, startTracing, finishTracing and pushLog keep the old
\* shapes as a prefix, only finishTracing makes it grow, and clearShapes and
\* reset empty it.
C12_ShapesAppendOnly ==
  /\ op.name \in {"step", "animatePath", "advance", "buildTurnAnim", "startTracing",
                  "finishTracing", "pushLog"}
       => /\ IsPrefix(prev.shapes, state.shapes)
          /\ op.name # "finishTracing" => state.shapes = prev.shapes
  /\ op.name \in {"clearShapes", "reset"} => state.shapes = <<>>

\* a second shape committed to a store that kept its first
C12_Witness ==
  /\ op.name = "finishTracing"
  /\ Len(prev.shapes) = 1
  /\ Len(state.shapes) = 2
  /\ state.shapes[1] = prev.shapes[1]
  /\ state.shapes[2] # state.shapes[1]

\* C13: the log is append-only: pushLog returns the old log followed by the new
\* entry with every other field unchanged, and no operation other than reset
\* (not clearShapes, a step or finishTracing) removes or reorders entries.
C13_LogAppendOnly ==
  /\ op.name = "pushLog" => state = [prev EXCEPT !.log = Append(prev.log, op.entry)]
  /\ op.name \notin {"init", "reset", "pushLog"} => state.log = prev.log

\* an entry pushed behind an entry already logged
C13_Witness ==
  /\ op.name = "pushLog"
  /\ Len(prev.log) >= 1
  /\ Len(state.log) = Len(prev.log) + 1
  /\ state.log[Len(state.log)] = op.entry
  /\ state.log[1] = prev.log[1]
  /\ state.log[1] # op.entry

(* ------------------------------------------------------------------ *)
(* Properties of the caller                                            *)
(* ------------------------------------------------------------------ *)

\* the last operation was a handler that scheduled a job
ScheduledJob ==
  /\ op.name \in {"doAdvance", "doTurn", "doTraceSegment", "doTraceCircle", "canvasClick"}
  /\ op.scheduled

\* every command so far was issued while no job was active, in E, with no reset
CommandsInOrder == space = "E" /\ ~hist.hasReset /\ ~hist.overlap

\* all jobs have finished and all completion timers have fired
AllSettled == timers = {} /\ ~state.anim.active

\* C6: every place of the caller that schedules a job does so only when
\* anim.active is false: a job is never created while another one is active.
C6_ScheduleOnlyWhenIdle == ScheduledJob => ~prev.anim.active

\* C7: when every command is issued while no job is active, the state after all
\* jobs and timers contains the effect of every command: the heading is the sum
\* of the turns issued, no completion callback of an earlier advance or trace
\* having put back the heading from before a later turn.
C7_NoLostCommand == (CommandsInOrder /\ AllSettled) => state.e_theta = hist.turned

\* C8: after a reset by a change of space the engine state stays the reset state
\* until a new command is issued: the space is the selected one, and position,
\* shapes and trace are initial; no pending timer re-installs a pre-reset state.
C8_ResetStays ==
  hist.sinceReset =>
    /\ state.space = space
    /\ frogWorldPos(state) = V2(0, 0)
    /\ state.shapes = <<>>
    /\ state.inProgress = NullTrace

\* C10: in every reachable state the trace in progress is non-null only while a
\* job with accumulate enabled is active.
C10_TraceOnlyWhileAccumulating ==
  state.inProgress # NullTrace => (state.anim.active /\ state.anim.addToTrace)

\* C14: the timer of a parallel requested on the sphere creates and reveals no
\* line, shows the fixed message of an impossible operation and puts the
\* line-operation mode back to NONE.
C14_SphereParallelRejected ==
  [][(op'.name = "lineOpTimer" /\ op'.space = "S" /\ op'.lineOpMode # "PERPENDICULAR")
       => /\ magicLine' = magicLine
          /\ lines' = lines
          /\ measurePanelText' = Impossible
          /\ lineOpMode' = "NONE"]_vars

\* a parallel was asked for on the sphere through a point off the stored line,
\* and its timer has ended the operation
C14_Witness ==
  /\ op.name = "lineOpTimer"
  /\ op.space = "S"
  /\ op.lineOpMode = "PARALLEL_0"
  /\ op.w = V2(1000, 0)
  /\ measurePanelText = Impossible
  /\ lineOpMode = "NONE"

\* C15: when the timer of a line operation ends it as impossible, and nothing
\* else was asked since the click, the engine state (the job record apart) is
\* the one the click found, the frog position included.
C15_ImpossibleLeavesEngineState ==
  (op.name = "lineOpTimer" /\ measurePanelText = Impossible /\ nOps = op.n + 1)
    => [state EXCEPT !.anim = op.before.anim] = op.before

\* C17: in S, once the engine is idle and no completion timer is waiting, s_p and
\* s_t are unit vectors and s_t is tangent at s_p (dot(s_p, s_t) = 0), up to the
\* rounding a sequence of moves can add up (50 units of the last place).
C17_SphereHeadingTangent ==
  (state.space = "S" /\ ~state.anim.active /\ timers = {}) =>
    /\ Abs(hypot3(state.s_p) - Scale) <= 50 * Ulp
    /\ Abs(hypot3(state.s_t) - Scale) <= 50 * Ulp
    /\ Abs(dot3(state.s_p, state.s_t)) <= 50 * Ulp

C18_DistanceSymmetric ==
  op.name = "distanceExact" => op.d = op.back

\* two different points of the disk were measured in both orders
C18_Witness ==
  /\ op.name = "distanceExact"
  /\ op.space = "H"
  /\ op.A = V2(5000, 0)
  /\ op.B = V2(2000, 3000)
  /\ op.d > 0
  /\ op.d = op.back

\* C19: the distance from a valid point to itself is 0 in every space.
C19_DistanceToSelfZero ==
  (op.name = "distanceExact" /\ op.A = op.B) => op.d = 0

\* C20: in H the geodesic between two points collinear with the origin (cross
\* product below 1e-7) is exactly the pair of the two points.
C20_CollinearGivesPair ==
  (op.name = "geodesicBetween" /\ op.space = "H"
     /\ Abs(op.p.x * op.q.y - op.p.y * op.q.x) < 10)
    => op.pts = <<op.p, op.q>>

\* the geodesic from the origin to (0.5, 0) was asked for in H
C20_Witness ==
  /\ op.name = "geodesicBetween"
  /\ op.space = "H"
  /\ op.p = V2(0, 0)
  /\ op.q = V2(5000, 0)
  /\ op.pts = <<V2(0, 0), V2(5000, 0)>>

(* ------------------------------------------------------------------ *)
(* Properties of the walk along a path                                 *)
(* ------------------------------------------------------------------ *)

\* the budget speed * dt of the last step
stepBudget == RDiv(prev.anim.speed * op.dt, Second)

\* the path length ahead of the progress of st, nothing once the job is over
lengthAhead(st) == IF st.anim.active THEN remainingLength(st.anim) ELSE 0

\* the length the last step walked along the path
walkedLength == remainingLength(prev.anim) - lengthAhead(state)

\* C21: one step of a path job walks min(speed * dt, remaining path length)
\* along the polyline: the length between the old and the new (i, t) is the
\* budget while the job goes on, and the job ends only when the budget covers
\* the remaining length.
C21_StepWalksBudget ==
  SteppedPathJob =>
    /\ state.anim.active
         => /\ state.anim.path = prev.anim.path
            /\ Abs(walkedLength - stepBudget) <= Ulp
            /\ stepBudget <= remainingLength(prev.anim) + Ulp
    /\ ~state.anim.active
         => /\ stepBudget >= remainingLength(prev.anim) - Ulp
            /\ walkedLength = remainingLength(prev.anim)

\* a step that walked its budget across a zero-length segment and went on
C21_Witness ==
  /\ SteppedPathJob
  /\ prev.anim.path = PathBend
  /\ prev.anim.i = 0
  /\ prev.anim.t > 0
  /\ state.anim.active
  /\ state.anim.i = 2
  /\ state.anim.t > 0
  /\ walkedLength = stepBudget

\* the length of the segment of path with 0-based index i
segmentLength(path, i) == hypot2(sub2(path[i + 2], path[i + 1]))

\* the budget left of the last step where it entered the segment with index i
budgetAtSegment(i) ==
  stepBudget - (remainingLength(prev.anim) - lengthFrom(prev.anim.path, i + 1))

ScheduleWhenIdle ==
  /\ ~state.anim.active
  /\ (AnimatePath \/ Advance \/ BuildTurnAnim)

LiveNext ==
  \/ ScheduleWhenIdle
  \/ StepAnimation

\* The step of LiveNext that is a call of stepAnimation, told by the history it
\* leaves.  It is enabled in every state, and a step of LiveNext changes op or
\* prev this way exactly when StepAnimation changes the state of the run.
Stepped == \E dt \in Dts : op' = [name |-> "step", dt |-> dt] /\ prev' = state

\* The frame loop calls stepAnimation on every frame: steps keep being taken.
SpecLive == Init /\ [][LiveNext]_vars /\ WF_<<op, prev>>(Stepped)

\* C23: under repeated stepping with dt bounded below, every scheduled job (a
\* path job with speed > 0, zero-length segments included, or a rotation job
\* with duration > 0) ends: anim.active becomes false after finitely many steps.
C23_JobsEnd == state.anim.active ~> ~state.anim.active

\* the bent path with its zero-length segment, ended by a step after earlier
\* steps had walked part of it
C23_Witness ==
  /\ op.name = "step"
  /\ prev.anim.active
  /\ prev.anim.path = PathBend
  /\ prev.anim.i = 2
  /\ prev.anim.t > 0
  /\ ~state.anim.active

\* C26: stepAnimation on an idle state (anim.active false) returns the state
\* unchanged for every dt: position, heading, shapes, trace in progress, log
\* and anim are the same.
C26_IdleStepIsIdentity ==
  (op.name = "step" /\ ~prev.anim.active) => state = prev

\* a step on an idle state that holds a shape, a log entry, a trace in progress
\* and the one-point path of a job that ended without moving
C26_Witness ==
  /\ op.name = "step"
  /\ ~prev.anim.active
  /\ Len(prev.anim.path) = 1
  /\ Len(prev.shapes) >= 1
  /\ Len(prev.log) >= 1
  /\ state.anim.path = prev.anim.path
  /\ state.shapes = prev.shapes

\* C27: a path of fewer than 2 points fails soft: the step taken on the
\* scheduled job sets anim.active to false and changes nothing else, so that a
\* caller that polls active sees the job complete.
C27_ShortPathFailsSoft ==
  (op.name = "step" /\ prev.anim.active /\ ~prev.anim.rotate.on /\ Len(prev.anim.path) < 2)
    => /\ ~state.anim.active
       /\ state = [prev EXCEPT !.anim.active = FALSE]

\* the first step after an empty path was scheduled while a trace was in progress
C27_Witness ==
  /\ op.name = "step"
  /\ prev.anim.active
  /\ prev.anim.path = PathEmpty
  /\ prev.anim.addToTrace
  /\ prev.inProgress # NullTrace
  /\ ~state.anim.active
  /\ state.inProgress = prev.inProgress

\* C29: when a path job with accumulate set completes, the last point of the
\* trace in progress is the last point of the path, for every path and every
\* sequence of step sizes.
C29_TraceEndsAtPathEnd ==
  (SteppedPathJob /\ prev.anim.addToTrace /\ prev.inProgress # NullTrace /\ ~state.anim.active)
    => state.inProgress.pts[Len(state.inProgress.pts)] = prev.anim.path[Len(prev.anim.path)]

\* C30: every polyline in the committed shapes has at least 2 points: a trace
\* that never accumulated a second point is dropped by finishTracing.
C30_ShapesHaveTwoPoints ==
  \A k \in 1..Len(state.shapes) : Len(state.shapes[k].pts) >= 2

\* finishTracing dropped a trace that held its seed only, beside a shape
\* committed before
C30_Witness ==
  /\ op.name = "finishTracing"
  /\ prev.inProgress # NullTrace
  /\ Len(prev.inProgress.pts) = 1
  /\ Len(prev.shapes) >= 1
  /\ state.shapes = prev.shapes
  /\ state.inProgress = NullTrace

(* ------------------------------------------------------------------ *)
(* Further properties of the geodesics                                 *)
(* ------------------------------------------------------------------ *)

\* C24: in H and in S the polyline geodesicBetween returns has at least 2
\* points, starts exactly at p and ends exactly at q, for all valid p and q,
\* the degenerate pairs (collinear with the centre, equal points) included.
C24_ExactEndpoints ==
  (op.name = "geodesicBetween" /\ op.space \in {"H", "S"}) =>
    /\ Len(op.pts) >= 2
    /\ op.pts[1] = op.p
    /\ op.pts[Len(op.pts)] = op.q

\* a sampled arc in H between two points not collinear with the centre
C24_Witness ==
  /\ op.name = "geodesicBetween"
  /\ op.space = "H"
  /\ op.p = V2(5000, 0)
  /\ op.q = V2(2000, 3000)
  /\ Len(op.pts) = GeoN + 1
  /\ op.pts[2] # op.p
  /\ op.pts[GeoN] # op.q

(* ------------------------------------------------------------------ *)
(* Further properties of the caller and of the traces                  *)
(* ------------------------------------------------------------------ *)

\* the position and heading pair of space sp in st
pairOf(st, sp) ==
  IF sp = "E" THEN <<st.e_pos, st.e_theta>>
  ELSE IF sp = "H" THEN <<st.h_pos, st.h_theta>>
  ELSE <<st.s_p, st.s_t>>

positionsOf(st) == <<st.e_pos, st.h_pos, st.s_p>>

headingsOf(st) == <<st.e_theta, st.h_theta, st.s_t>>

\* b has the pairs of a in the spaces other than the active space of a
othersKept(a, b) == \A sp \in SpaceId \ {a.space} : pairOf(b, sp) = pairOf(a, sp)

\* the timer the last command started
startedTimers == {tm \in timers : tm.n = nOps - 1 /\ tm.kind \in {"advance", "trace"}}

\* C25: stepAnimation, buildTurnAnim, buildAdvancePath and buildCircleTrace,
\* executed with active space X, leave the position and the heading of the two
\* other spaces as they were; a rotation job changes no position and a path
\* job changes no heading.
C25_OnlyActiveSpace ==
  /\ op.name = "frame"
       => /\ othersKept(prev, state)
          /\ (prev.anim.active /\ prev.anim.rotate.on)
               => positionsOf(state) = positionsOf(prev)
          /\ (prev.anim.active /\ ~prev.anim.rotate.on)
               => headingsOf(state) = headingsOf(prev)
  /\ op.name = "doTurn"
       => /\ positionsOf(state) = positionsOf(prev)
          /\ headingsOf(state) = headingsOf(prev)
  /\ op.name \in {"doAdvance", "doTraceSegment", "doTraceCircle"}
       => /\ positionsOf(state) = positionsOf(prev)
          /\ headingsOf(state) = headingsOf(prev)
          /\ \A tm \in startedTimers : othersKept(prev, tm.next)

\* a frame that moved the frog along a path on the sphere
C25_Witness ==
  /\ op.name = "frame"
  /\ prev.space = "S"
  /\ prev.anim.active
  /\ ~prev.anim.rotate.on
  /\ Len(prev.anim.path) >= 2
  /\ state.s_p # prev.s_p
  /\ state.e_pos = prev.e_pos

\* pt is within tol of the line through the segment, and between its ends;
\* ab and ap are the vectors from the first end to the second end and to pt
alongSegment(ab, ap, len, tol) ==
  IF len = 0 THEN hypot2(ap) <= tol
  ELSE /\ Abs(ab.x * ap.y - ab.y * ap.x) <= tol * len
       /\ ab.x * ap.x + ab.y * ap.y >= -(tol * len)
       /\ ab.x * ap.x + ab.y * ap.y <= len * len + tol * len

\* pt lies on a segment of the polyline path, up to the rounding of positions
onPath(pt, path) ==
  \E k \in 1..(Len(path) - 1) :
    alongSegment(sub2(path[k + 1], path[k]), sub2(pt, path[k]),
                 hypot2(sub2(path[k + 1], path[k])), 2 * Ulp)

\* the last operation committed the trace in progress as the last shape, and
\* no other timer was pending
TraceCommitted ==
  /\ op.name = "traceTimer"
  /\ timers = {}
  /\ prev.inProgress # NullTrace
  /\ Len(state.shapes) >= 1
  /\ state.shapes[Len(state.shapes)] = prev.inProgress

\* C28: every vertex of a polyline committed by a trace command lies on the
\* path that was scheduled for that trace; for a circle every vertex is on the
\* circle path, so the centre of the circle is not a vertex of the shape.
C28_CommittedOnPath ==
  TraceCommitted =>
    \A k \in 1..Len(state.shapes[Len(state.shapes)].pts) :
      onPath(state.shapes[Len(state.shapes)].pts[k], op.path)


====
